---------------------------- MODULE Spec2Model ----------------------------
(***************************************************************************)
(* Model of the bot fleet of src/index.js (the configuration-driven        *)
(* version, lines 293-704): the process-wide connection pacing             *)
(* (createBotWithRateLimit), the per-connection closures of createBot and  *)
(* their event handlers, and the start-up launch loop.                     *)
(*                                                                         *)
(* Time is discrete.  timeSinceLastConnection stands for                   *)
(* Date.now() - lastConnectionTime and saturates at MAX_DELAY, the largest *)
(* value currentDelay can take, so that every comparison the code makes    *)
(* with it is exact.  The waits of createBotWithRateLimit count down with  *)
(* the clock; every other timer (authentication delay, cooldown, backoff   *)
(* timer, login retry) carries random jitter in the code and fires at an   *)
(* arbitrary later step.                                                   *)
(***************************************************************************)
EXTENDS Integers, Sequences, FiniteSets, TLC

\* ---------------------------------------------------------------- bounds
\* the number of createBot calls (closures / connection handles) a run of
\* the fleet makes; the run without throttle signals makes one more
MaxHandles == 2
\* login failure markers delivered in one run, over all handles
MaxFailureMarkers == 3
\* throttle signals counted in the run that counts them
MaxSignals == 3
\* 'end' events one connection emits in the runs whose connections go on
\* emitting after their first 'end'
MaxEnds == 2

\* ------------------------------------------------- program configuration
\* config.bots.totalBots: the size of the fleet
NumBots == 2
\* config.bots.startIndex
StartIndex == 1
\* config.timing.initialConnectionDelay and config.timing.maxConnectionDelay,
\* in clock ticks
Timing == [initialConnectionDelay |-> 2, maxConnectionDelay |-> 4]
\* the same of the run that multiplies the delay: three signals of mixed
\* kinds stay below the ceiling, and every product below it is a whole number
WideTiming == [initialConnectionDelay |-> 8, maxConnectionDelay |-> 40]
\* config.timing.reconnectBaseDelay, in clock ticks
ReconnectBaseDelay == 2
\* config.bots.maxReconnectAttempts of the runs that reconnect
ReconnectBudget == 1
\* config.bots.maxLoginRetries
maxLoginRetries == 2

Ids == StartIndex .. (StartIndex + NumBots - 1)
Handles == 1 .. (MaxHandles + 1)
\* the runs of bot.on('end') on one handle, in the order of its 'end' events
Runs == 1 .. MaxEnds

\* credentials[username] is undefined until a registration stores a secret
NoSecret == "undefined"
\* config.bots.password
Password == "password"
\* a secret found in bots/credentials.json at start-up, left by an earlier run
StoredSecret == "stored"

Min(a, b) == IF a < b THEN a ELSE b
Max(a, b) == IF a > b THEN a ELSE b

\* ----------------------------------------------------------------- text
\* Texts are sequences of characters; includes is substring search.
\* chat is disabled
PhraseChatDisabled ==
    <<"c","h","a","t"," ","i","s"," ","d","i","s","a","b","l","e","d">>

\* logging in too fast
PhraseTooFastLogin ==
    <<"l","o","g","g","i","n","g"," ","i","n"," ","t","o","o"," ","f","a","s","t">>

\* try again later
PhraseTryAgainLater ==
    <<"t","r","y"," ","a","g","a","i","n"," ","l","a","t","e","r">>

\* success
PhraseSuccess ==
    <<"s","u","c","c","e","s","s">>

\* log
PhraseLog ==
    <<"l","o","g">>

\* wrong password
PhraseWrongPassword ==
    <<"w","r","o","n","g"," ","p","a","s","s","w","o","r","d">>

\* failed
PhraseFailed ==
    <<"f","a","i","l","e","d">>

\* too fast
PhraseTooFast ==
    <<"t","o","o"," ","f","a","s","t">>

\* try again
PhraseTryAgain ==
    <<"t","r","y"," ","a","g","a","i","n">>

\* rate
PhraseRate ==
    <<"r","a","t","e">>

\* limit
PhraseLimit ==
    <<"l","i","m","i","t">>

\* Successfully logged in
MsgSuccess ==
    <<"S","u","c","c","e","s","s","f","u","l","l","y"," ","l","o","g","g","e","d"," ","i","n">>

\* Wrong password, login again
MsgWrongPassword ==
    <<"W","r","o","n","g"," ","p","a","s","s","w","o","r","d",","," ","l","o","g","i","n"," ","a","g","a","i","n">>

\* Login failed
MsgFailed ==
    <<"L","o","g","i","n"," ","f","a","i","l","e","d">>

\* You are logging in too fast
MsgTooFast ==
    <<"Y","o","u"," ","a","r","e"," ","l","o","g","g","i","n","g"," ","i","n"," ","t","o","o"," ","f","a","s","t">>

\* Please try again later
MsgTryLater ==
    <<"P","l","e","a","s","e"," ","t","r","y"," ","a","g","a","i","n"," ","l","a","t","e","r">>

\* Chat is disabled
MsgChatOff ==
    <<"C","h","a","t"," ","i","s"," ","d","i","s","a","b","l","e","d">>

\* hello
MsgHello ==
    <<"h","e","l","l","o">>

\* Login success. Chat is disabled
MsgSuccessChatOff ==
    <<"L","o","g","i","n"," ","s","u","c","c","e","s","s","."," ","C","h","a","t"," ","i","s"," ","d","i","s","a","b","l","e","d">>

\* Login failed, try again later
MsgFailedTryLater ==
    <<"L","o","g","i","n"," ","f","a","i","l","e","d",","," ","t","r","y"," ","a","g","a","i","n"," ","l","a","t","e","r">>

\* Login success, try again later
MsgSuccessTryLater ==
    <<"L","o","g","i","n"," ","s","u","c","c","e","s","s",","," ","t","r","y"," ","a","g","a","i","n"," ","l","a","t","e","r">>

\* {"text":"too fast"}
KickJsonTooFast ==
    <<"{","\"","t","e","x","t","\"",":","\"","t","o","o"," ","f","a","s","t","\"","}">>

\* "try again"
KickJsonStringTryAgain ==
    <<"\"","t","r","y"," ","a","g","a","i","n","\"">>

\* try again later
KickPlainTryAgain ==
    <<"t","r","y"," ","a","g","a","i","n"," ","l","a","t","e","r">>

\* {"text":"Banned"}
KickJsonBanned ==
    <<"{","\"","t","e","x","t","\"",":","\"","B","a","n","n","e","d","\"","}">>

\* {"text":"limit"}
KickObjectLimit ==
    <<"{","\"","t","e","x","t","\"",":","\"","l","i","m","i","t","\"","}">>

\* ABCDEFGHIJKLMNOPQRSTUVWXYZ
UpperCase ==
    <<"A","B","C","D","E","F","G","H","I","J","K","L","M","N","O","P","Q","R","S","T","U","V","W","X","Y","Z">>

\* abcdefghijklmnopqrstuvwxyz
LowerCase ==
    <<"a","b","c","d","e","f","g","h","i","j","k","l","m","n","o","p","q","r","s","t","u","v","w","x","y","z">>

\* String.prototype.includes
Includes(s, t) ==
    \E i \in 1 .. (Len(s) - Len(t) + 1) : SubSeq(s, i, i + Len(t) - 1) = t

LowerChar(c) ==
    IF \E i \in 1 .. Len(UpperCase) : UpperCase[i] = c
    THEN LowerCase[CHOOSE i \in 1 .. Len(UpperCase) : UpperCase[i] = c]
    ELSE c

\* String.prototype.toLowerCase
ToLowerCase(s) == [i \in 1 .. Len(s) |-> LowerChar(s[i])]

\* the inbound chat texts explored
Messages ==
    { MsgSuccess, MsgWrongPassword, MsgFailed, MsgTooFast, MsgTryLater,
      MsgChatOff, MsgHello, MsgSuccessChatOff, MsgFailedTryLater,
      MsgSuccessTryLater }

\* bot.on('message'): msg.includes("chat is disabled")
IsChatDisabledMsg(msg) == Includes(msg, PhraseChatDisabled)

\* bot.on('message'): the rate limiting check
IsRateLimitMsg(msg) ==
    Includes(msg, PhraseTooFastLogin) \/ Includes(msg, PhraseTryAgainLater)

\* bot.on('message'): the login success marker
IsLoginSuccessMsg(msg) == Includes(msg, PhraseSuccess) /\ Includes(msg, PhraseLog)

\* bot.on('message'): the login failure marker (the else-if branch)
IsLoginFailureMsg(msg) ==
    /\ ~IsLoginSuccessMsg(msg)
    /\ (Includes(msg, PhraseWrongPassword) \/ Includes(msg, PhraseFailed))
    /\ Includes(msg, PhraseLog)

\* what the message handler decides from one text, computed once per text
MessageClass ==
    [m \in Messages |->
        LET msg == ToLowerCase(m) IN
        [ chatDisabled |-> IsChatDisabledMsg(msg),
          rateLimit    |-> IsRateLimitMsg(msg),
          success      |-> IsLoginSuccessMsg(msg),
          failure      |-> IsLoginFailureMsg(msg) ]]

\* A kick reason is a string (JSON text, or not) or an object.  An object
\* is written as the text JSON.stringify gives.
KickReasons ==
    { [type |-> "string", text |-> KickJsonTooFast],
      [type |-> "string", text |-> KickJsonStringTryAgain],
      [type |-> "string", text |-> KickPlainTryAgain],
      [type |-> "string", text |-> KickJsonBanned],
      [type |-> "object", text |-> KickObjectLimit] }

\* JSON.parse on the texts explored: an object text, a string literal, or a
\* SyntaxError for anything else
JsonParse(s) ==
    IF Len(s) >= 2 /\ s[1] = "{" /\ s[Len(s)] = "}"
    THEN [kind |-> "object", text |-> s]
    ELSE IF Len(s) >= 2 /\ s[1] = "\"" /\ s[Len(s)] = "\""
    THEN [kind |-> "string", text |-> SubSeq(s, 2, Len(s) - 1)]
    ELSE [kind |-> "throws", text |-> <<>>]

\* bot.on('kicked'): parsedReason and reasonStr; "throws" when JSON.parse
\* raises, which the handler's catch turns into a log line only
ReasonStr(reason) ==
    IF reason.type = "string" THEN JsonParse(reason.text)
    ELSE [kind |-> "object", text |-> reason.text]

\* bot.on('kicked'): the rate limiting check on reasonStr
IsRateLimitKick(reason) ==
    LET r == ReasonStr(reason) IN
    /\ r.kind # "throws"
    /\ \/ Includes(r.text, PhraseTooFast)
       \/ Includes(r.text, PhraseTryAgain)
       \/ Includes(r.text, PhraseRate)
       \/ Includes(r.text, PhraseLimit)

KickClass == [r \in KickReasons |-> IsRateLimitKick(r)]

\* ---------------------------------------------------------------- state
VARIABLES
    credentials,              \* username -> secret (the in-memory map)
    credFile,                 \* bots/credentials.json as last written
    activeBots,               \* username -> handle, 0 when absent
    currentDelay,             \* the shared delay between connections
    timeSinceLastConnection,  \* Date.now() - lastConnectionTime, saturated
    rateLimitDetected,        \* the shared throttle flag
    chatDisabled,             \* the shared chat-disabled flag
    launchPc,                 \* the launch loop: "call", "wait", "pause", "done"
    launchI,                  \* the launch loop's index i
    launchWait,               \* what is left of the launch loop's waitTime
    sinceLaunch,              \* time since the loop's last createBotWithRateLimit returned
    nBots,                    \* createBot calls made so far
    owner,                    \* handle -> index of its createBot call
    bot,                      \* handle -> "unborn", "none", "open", "closing", "ended"
    spawnPc,                  \* the spawn handler: "idle", "delay", "done"
    intervals,                \* handle -> idle-behaviour intervals running
    endPc,                    \* handle -> where each run of its end handler
                              \* stands: "cooldown", "timer", "clearance",
                              \* "done", "failed"
    waitTime,                 \* handle -> what is left of each run's waitTime
    reconnectAttempts,        \* per closure
    reconnectDelay,           \* per closure
    loginRetries,             \* per closure
    retryTimers,              \* handle -> login retry timers pending
    failureMarkers,           \* login failure markers delivered so far
    registrations,            \* username -> /register commands sent so far
    scope,                    \* what a run explores and its configuration:
                              \* [handles, markers, signals, reconnects, timed, late,
                              \*  timing]
    signals,                  \* throttle signals logged: how many [soft, hard], and
                              \* by which handles
    chat                      \* the bot.chat command of the last step, if any

admission == <<currentDelay, timeSinceLastConnection, rateLimitDetected>>
store == <<credentials, credFile>>
launch == <<launchPc, launchI, launchWait, sinceLaunch>>
handles == <<nBots, owner, bot, activeBots>>
closure == <<reconnectAttempts, reconnectDelay, loginRetries>>
perHandle == <<spawnPc, intervals, retryTimers, failureMarkers, registrations, scope>>
session == <<perHandle, signals>>
reconnection == <<endPc, waitTime>>

vars ==
    <<credentials, credFile, activeBots, currentDelay, timeSinceLastConnection,
      rateLimitDetected, chatDisabled, launchPc, launchI, launchWait, nBots,
      owner, bot, spawnPc, intervals, endPc, waitTime, reconnectAttempts,
      reconnectDelay, loginRetries, retryTimers, failureMarkers, registrations,
      scope, signals, sinceLaunch, chat>>

\* no bot.chat call in the step
NoChat == [bot |-> 0, cmd |-> "none"]

\* bot.chat(`/register ...`) or bot.chat(`/login ...`) on handle h
Chat(h, cmd) == [bot |-> h, cmd |-> cmd]

\* config.timing.initialConnectionDelay, the first value of currentDelay
InitialConnectionDelay == scope.timing.initialConnectionDelay

\* const MAX_DELAY = config.timing.maxConnectionDelay
MAX_DELAY == scope.timing.maxConnectionDelay

\* The state when the start-up block begins.  lastConnectionTime = 0 lies
\* far more than MAX_DELAY before Date.now().  chatDisabled starts as
\* config.behavior.assumeChatDisabled says.  Every closure createBot will
\* make starts from the initialisers of its let declarations.
InitProgram ==
    /\ credentials \in [Ids -> {StoredSecret, NoSecret}]
    /\ credFile = credentials
    /\ activeBots = [u \in Ids |-> 0]
    /\ currentDelay = InitialConnectionDelay
    /\ timeSinceLastConnection = MAX_DELAY
    /\ rateLimitDetected = FALSE
    /\ chatDisabled \in BOOLEAN
    /\ launchPc = "call"
    /\ launchI = StartIndex
    /\ launchWait = 0
    /\ nBots = 0
    /\ owner = [h \in Handles |-> 0]
    /\ bot = [h \in Handles |-> "unborn"]
    /\ spawnPc = [h \in Handles |-> "idle"]
    /\ intervals = [h \in Handles |-> 0]
    /\ endPc = [h \in Handles |-> <<>>]
    /\ waitTime = [h \in Handles |-> <<>>]
    /\ reconnectAttempts = [h \in Handles |-> 0]
    /\ reconnectDelay = [h \in Handles |-> ReconnectBaseDelay]
    /\ loginRetries = [h \in Handles |-> 0]
    /\ retryTimers = [h \in Handles |-> 0]
    /\ failureMarkers = 0
    /\ registrations = [u \in Ids |-> 0]
    /\ chat = NoChat
    /\ signals = [soft |-> 0, hard |-> 0, by |-> {}]
    /\ sinceLaunch = MAX_DELAY

\* what a run explores (handles created, failure markers delivered, signals
\* counted), the maxReconnectAttempts and the connection delays of its
\* configuration, whether it measures the time between the launch loop's
\* launches, and whether its connections go on emitting events after their
\* 'end'
Run(nHandles, nMarkers, nSignals, nReconnects) ==
    [handles |-> nHandles, markers |-> nMarkers, signals |-> nSignals,
     reconnects |-> nReconnects, timed |-> FALSE, late |-> FALSE,
     timing |-> Timing]

\* a run of the whole fleet, with connections that go on emitting after
\* their 'end'
Init ==
    /\ scope = [Run(MaxHandles, MaxFailureMarkers, 0, ReconnectBudget)
                   EXCEPT !.late = TRUE]
    /\ InitProgram

\* config.bots.maxReconnectAttempts
maxReconnectAttempts == scope.reconnects

\* the log line of a throttle signal ("... increasing global delay to ..."),
\* counted in the runs that count signals
LogSignal(h, kind) ==
    IF scope.signals = 0
    THEN UNCHANGED signals
    ELSE /\ signals.soft + signals.hard < scope.signals
         /\ signals' = [signals EXCEPT ![kind] = @ + 1, !.by = @ \cup {h}]

\* ------------------------------------------------- the code's arithmetic
\* a reset that doubles the delay like an explicit signal
MutSoftThrottle(d) == Min(2 * d, MAX_DELAY)

\* a reset that computes from the configured delay, not the current one
StaleSoftThrottle(d) == Min((3 * InitialConnectionDelay) \div 2, MAX_DELAY)

\* Math.min(currentDelay * 1.5, MAX_DELAY); exact on the delays reached (the
\* only odd one, 27, goes to the ceiling)
SoftThrottle(d) == Min((3 * d) \div 2, MAX_DELAY)

\* the doubling without its ceiling
MutHardThrottle(d) == 2 * d

\* Math.min(currentDelay * 2, MAX_DELAY)
HardThrottle(d) == Min(2 * d, MAX_DELAY)

\* Math.min(reconnectDelay * 1.5, MAX_DELAY)
NextReconnectDelay(d) == Min((3 * d) \div 2, MAX_DELAY)

\* reconnectAttempts < maxReconnectAttempts
MayReconnect(attempts) == attempts < maxReconnectAttempts

\* a counter that steps by two
MutNextReconnectAttempts(attempts) == attempts + 2

\* reconnectAttempts++
NextReconnectAttempts(attempts) == attempts + 1

\* reconnectAttempts = 0, on the spawn handler's last lines
ResetReconnectAttempts(attempts) == 0

\* a spawn that keeps the login retries
MutResetLoginRetries(retries) == retries

\* loginRetries = 0, on the spawn handler's last lines
ResetLoginRetries(retries) == 0

\* a retry limit that is off by one
MutMayRetryLogin(retries) == retries <= maxLoginRetries

\* a success marker that keeps the login retries
MutClearLoginRetries(retries) == retries

\* loginRetries = 0 of the login success branch
ClearLoginRetries(retries) == 0

\* loginRetries < maxLoginRetries
MayRetryLogin(retries) == retries < maxLoginRetries

\* a spawn that ignores the stored secret
MutNeedsRegistration(u) == TRUE

\* !credentials[username]
NeedsRegistration(u) == credentials[u] = NoSecret

\* timeSinceLastConnection < currentDelay
MustWait == timeSinceLastConnection < currentDelay

\* waitTime = currentDelay - timeSinceLastConnection
WaitTime == currentDelay - timeSinceLastConnection

\* bot.entity as a timer callback finds it: mineflayer sets it, the program
\* only reads it
Entities == {"undefined", "entity"}

\* if (bot.entity)
HasEntity(entity) == entity # "undefined"

\* run k of bot.on('end') on handle h stands at pc
At(h, k, pc) == k \in DOMAIN endPc[h] /\ endPc[h][k] = pc

\* where the runs of bot.on('end') on handle h stand
Stages(h) == {endPc[h][k] : k \in DOMAIN endPc[h]}

\* the connection of a handle emits events until its 'end' has been emitted
Emitting(h) == bot[h] \in {"open", "closing"}

\* setupEventHandlers has registered the handlers of handle h; nothing
\* removes them, so they run on whatever the handle emits
Listening(h) == bot[h] \in {"open", "closing", "ended"}

\* --------------------------------------------------- connection attempts
\* createBot(index) and its connect(): the previous handle of the username
\* is ended and dropped from activeBots, then mineflayer.createBot either
\* returns a handle, which is stored, or throws, which is logged.
CreateBot(index, throws) ==
    LET h == nBots + 1
        old == activeBots[index]
    IN  /\ nBots' = h
        /\ owner' = [owner EXCEPT ![h] = index]
        /\ bot' = [g \in Handles |->
                     IF g = h THEN (IF throws THEN "none" ELSE "open")
                     ELSE IF g = old /\ bot[g] = "open" THEN "closing"
                     ELSE bot[g]]
        /\ activeBots' = [activeBots EXCEPT ![index] = IF throws THEN 0 ELSE h]

\* a connection opened without going through the pacing
MutClearance(index, throws) ==
    /\ nBots < scope.handles
    /\ UNCHANGED timeSinceLastConnection
    /\ CreateBot(index, throws)

\* createBotWithRateLimit past its wait: lastConnectionTime = Date.now(),
\* then createBot(index)
Clearance(index, throws) ==
    /\ nBots < scope.handles
    /\ timeSinceLastConnection' = 0
    /\ CreateBot(index, throws)

\* ------------------------------------------------------- the launch loop
LastIndex == StartIndex + NumBots - 1

\* await delay(60000) after a detected rate limit, in clock ticks
PauseDelay == 4

\* what the loop's pause has left when it begins
PauseTime == IF scope.timed THEN PauseDelay ELSE 0

\* the loop's createBotWithRateLimit(i) has returned now
LaunchClock == IF scope.timed THEN 0 ELSE sinceLaunch

\* the loop body with an index that does not advance
MutAfterLaunch(i) ==
    IF rateLimitDetected
    THEN /\ rateLimitDetected' = FALSE
         /\ launchPc' = "pause"
         /\ launchI' = i - 1
         /\ launchWait' = PauseTime
    ELSE /\ rateLimitDetected' = rateLimitDetected
         /\ launchI' = i
         /\ IF 0 < currentDelay
            THEN launchPc' = "wait" /\ launchWait' = currentDelay
            ELSE launchPc' = "call" /\ launchWait' = 0

\* the loop body after createBotWithRateLimit(i) has returned, up to the
\* next suspension: the flag check, then the next iteration's call, which
\* finds lastConnectionTime = now and waits for currentDelay
AfterLaunch(i) ==
    IF rateLimitDetected
    THEN /\ rateLimitDetected' = FALSE
         /\ launchPc' = "pause"
         /\ launchI' = i
         /\ launchWait' = PauseTime
    ELSE /\ rateLimitDetected' = rateLimitDetected
         /\ launchI' = i + 1
         /\ IF i + 1 > LastIndex
            THEN launchPc' = "done" /\ launchWait' = 0
            ELSE IF 0 < currentDelay
            THEN launchPc' = "wait" /\ launchWait' = currentDelay
            ELSE launchPc' = "call" /\ launchWait' = 0

\* createBotWithRateLimit(i) called by the loop
LaunchCall(i) ==
    IF MustWait
    THEN /\ launchPc' = "wait"
         /\ launchI' = i
         /\ launchWait' = WaitTime
         /\ UNCHANGED <<admission, handles, sinceLaunch>>
    ELSE /\ \E throws \in BOOLEAN : Clearance(i, throws)
         /\ AfterLaunch(i)
         /\ sinceLaunch' = LaunchClock
         /\ UNCHANGED currentDelay

\* the start-up block reaches the loop, or the loop comes back to its call
LaunchStart ==
    /\ launchPc = "call"
    /\ LaunchCall(launchI)
    /\ UNCHANGED <<store, chatDisabled, closure, session, reconnection>>
    /\ chat' = NoChat

\* the loop's await delay(waitTime) is over
LaunchWake ==
    /\ launchPc = "wait"
    /\ launchWait = 0
    /\ \E throws \in BOOLEAN : Clearance(launchI, throws)
    /\ AfterLaunch(launchI)
    /\ sinceLaunch' = LaunchClock
    /\ UNCHANGED <<currentDelay, store, chatDisabled, closure, session, reconnection>>
    /\ chat' = NoChat

\* the loop's await delay(60000) after a detected rate limit is over
LaunchResume ==
    /\ launchPc = "pause"
    /\ launchWait = 0
    /\ IF launchI + 1 > LastIndex
       THEN /\ launchPc' = "done"
            /\ launchI' = launchI + 1
            /\ launchWait' = 0
            /\ UNCHANGED <<admission, handles, sinceLaunch>>
       ELSE LaunchCall(launchI + 1)
    /\ UNCHANGED <<store, chatDisabled, closure, session, reconnection>>
    /\ chat' = NoChat

\* --------------------------------------------------------- event handlers
\* bot.on('error')
OnError(h, code) ==
    /\ Listening(h)
    /\ IF code = "ECONNRESET"
       THEN /\ rateLimitDetected' = TRUE
            /\ currentDelay' = SoftThrottle(currentDelay)
            /\ LogSignal(h, "soft")
       ELSE UNCHANGED <<rateLimitDetected, currentDelay, signals>>
    /\ UNCHANGED <<timeSinceLastConnection, store, chatDisabled, launch, handles,
                   closure, perHandle, reconnection>>
    /\ chat' = NoChat

\* bot.once('spawn'), up to its await delay(2000 + ...)
OnSpawn(h) ==
    /\ Listening(h)
    /\ spawnPc[h] = "idle"
    /\ spawnPc' = [spawnPc EXCEPT ![h] = "delay"]
    /\ UNCHANGED <<admission, store, chatDisabled, launch, handles, closure,
                   intervals, retryTimers, failureMarkers, registrations,
                   reconnection>>
    /\ chat' = NoChat
    /\ UNCHANGED <<scope, signals>>

\* startBotActivities: two movement intervals, and the chat interval unless
\* chat is disabled
StartBotActivities == IF chatDisabled THEN 2 ELSE 3

\* a registration that keeps the secret only if the file was written
MutSaveCredentials(u, writeFails) ==
    IF writeFails
    THEN UNCHANGED store
    ELSE /\ credentials' = [credentials EXCEPT ![u] = Password]
         /\ credFile' = credentials'

\* performRegistration after bot.chat: credentials[username] is set, then
\* fs.writeJsonSync writes the whole map, or throws and is logged
SaveCredentials(u, writeFails) ==
    /\ credentials' = [credentials EXCEPT ![u] = Password]
    /\ credFile' = IF writeFails THEN credFile ELSE credentials'

\* bot.once('spawn') after its delay: performRegistration or performLogin,
\* startBotActivities, and the reset of the closure's counters.  The write
\* of credentials.json can fail, which performRegistration only logs.
OnAuthenticate(h, writeFails) ==
    LET u == owner[h] IN
    /\ spawnPc[h] = "delay"
    /\ spawnPc' = [spawnPc EXCEPT ![h] = "done"]
    /\ IF NeedsRegistration(u)
       THEN /\ chat' = Chat(h, "register")
            /\ registrations' = [registrations EXCEPT ![u] = @ + 1]
            /\ SaveCredentials(u, writeFails)
       ELSE /\ chat' = Chat(h, "login")
            /\ UNCHANGED <<store, registrations>>
    /\ intervals' = [intervals EXCEPT ![h] = StartBotActivities]
    /\ reconnectAttempts' =
           [reconnectAttempts EXCEPT ![h] = ResetReconnectAttempts(@)]
    /\ reconnectDelay' = [reconnectDelay EXCEPT ![h] = ReconnectBaseDelay]
    /\ loginRetries' = [loginRetries EXCEPT ![h] = ResetLoginRetries(@)]
    /\ UNCHANGED <<admission, chatDisabled, launch, handles, retryTimers,
                   failureMarkers, reconnection>>
    /\ UNCHANGED <<scope, signals>>

\* a handler that ends the connection when the login retries run out
MutGiveUpLogin(h) ==
    /\ UNCHANGED retryTimers
    /\ bot' = [bot EXCEPT ![h] = "closing"]

\* bot.on('message'), the else of the retry test: "Max login retries
\* reached" is logged and nothing is done
GiveUpLogin(h) == UNCHANGED <<retryTimers, bot>>

\* bot.on('message')
OnMessage(h, m) ==
    LET c == MessageClass[m] IN
    /\ Listening(h)
    /\ chatDisabled' = (chatDisabled \/ c.chatDisabled)
    /\ IF c.rateLimit
       THEN /\ rateLimitDetected' = TRUE
            /\ currentDelay' = HardThrottle(currentDelay)
            /\ LogSignal(h, "hard")
       ELSE UNCHANGED <<rateLimitDetected, currentDelay, signals>>
    /\ IF c.success
       THEN /\ loginRetries' = [loginRetries EXCEPT ![h] = ClearLoginRetries(@)]
            /\ UNCHANGED <<retryTimers, failureMarkers, bot>>
       ELSE IF c.failure
       THEN /\ failureMarkers < scope.markers
            /\ failureMarkers' = failureMarkers + 1
            /\ loginRetries' = [loginRetries EXCEPT ![h] = @ + 1]
            /\ IF MayRetryLogin(loginRetries'[h])
               THEN /\ retryTimers' = [retryTimers EXCEPT ![h] = @ + 1]
                    /\ UNCHANGED bot
               ELSE GiveUpLogin(h)
       ELSE UNCHANGED <<loginRetries, retryTimers, failureMarkers, bot>>
    /\ UNCHANGED <<timeSinceLastConnection, store, launch, nBots, owner,
                   activeBots, reconnectAttempts, reconnectDelay, spawnPc,
                   intervals, registrations, reconnection>>
    /\ chat' = NoChat
    /\ UNCHANGED scope

\* the setTimeout of the login failure branch fires
OnLoginRetryTimer(h, entity) ==
    /\ retryTimers[h] > 0
    /\ retryTimers' = [retryTimers EXCEPT ![h] = @ - 1]
    /\ IF HasEntity(entity)
       THEN chat' = Chat(h, "login")
       ELSE chat' = NoChat
    /\ UNCHANGED <<admission, store, chatDisabled, launch, handles, closure,
                   spawnPc, intervals, failureMarkers, registrations, reconnection>>
    /\ UNCHANGED <<scope, signals>>

\* bot.on('kicked')
OnKicked(h, reason) ==
    /\ Listening(h)
    /\ IF KickClass[reason]
       THEN /\ rateLimitDetected' = TRUE
            /\ currentDelay' = HardThrottle(currentDelay)
            /\ LogSignal(h, "hard")
       ELSE UNCHANGED <<rateLimitDetected, currentDelay, signals>>
    /\ UNCHANGED <<timeSinceLastConnection, store, chatDisabled, launch, handles,
                   closure, perHandle, reconnection>>
    /\ chat' = NoChat

\* a give-up that stops every connection's reconnection
MutScheduleReconnect(h, k, started) ==
    IF MayReconnect(reconnectAttempts[h])
    THEN /\ reconnectAttempts' =
               [reconnectAttempts EXCEPT ![h] = NextReconnectAttempts(@)]
         /\ endPc' = [started EXCEPT ![h][k] = "timer"]
    ELSE /\ endPc' = [g \in Handles |->
                         [j \in DOMAIN started[g] |-> "failed"]]
         /\ UNCHANGED reconnectAttempts

\* bot.on('end') from "Attempt to reconnect with exponential backoff" on,
\* in run k of the handler on handle h; started holds the runs begun so
\* far, this one included: the counter and the timer, or the end of the
\* retries
ScheduleReconnect(h, k, started) ==
    IF MayReconnect(reconnectAttempts[h])
    THEN /\ reconnectAttempts' =
               [reconnectAttempts EXCEPT ![h] = NextReconnectAttempts(@)]
         /\ endPc' = [started EXCEPT ![h][k] = "timer"]
    ELSE /\ endPc' = [started EXCEPT ![h][k] = "failed"]
         /\ UNCHANGED reconnectAttempts

\* the 'end' event: the listener of startBotActivities clears the intervals
\* it knows, bot.on('end') drops the username from activeBots and either
\* suspends in the extra delay or goes on to the reconnection.  Every
\* 'end' of the handle starts a run of its own; the runs begun before go on.
OnEnd(h) ==
    LET k == Len(endPc[h]) + 1
        started == [endPc EXCEPT ![h] = Append(@, "cooldown")]
    IN  /\ Listening(h)
        /\ bot' = [bot EXCEPT ![h] = "ended"]
        /\ activeBots' = [activeBots EXCEPT ![owner[h]] = 0]
        /\ intervals' = [intervals EXCEPT ![h] = 0]
        /\ waitTime' = [waitTime EXCEPT ![h] = Append(@, 0)]
        /\ IF rateLimitDetected
           THEN /\ endPc' = started
                /\ UNCHANGED reconnectAttempts
           ELSE ScheduleReconnect(h, k, started)
        /\ UNCHANGED <<admission, store, chatDisabled, launch, nBots, owner,
                       reconnectDelay, loginRetries, spawnPc, retryTimers,
                       failureMarkers, registrations>>
        /\ chat' = NoChat
        /\ UNCHANGED <<scope, signals>>

\* run k of bot.on('end') after its await delay(extraDelay)
OnCooldownOver(h, k) ==
    /\ At(h, k, "cooldown")
    /\ rateLimitDetected' = FALSE
    /\ ScheduleReconnect(h, k, endPc)
    /\ UNCHANGED <<currentDelay, timeSinceLastConnection, store, chatDisabled,
                   launch, handles, reconnectDelay, loginRetries, session,
                   waitTime>>
    /\ chat' = NoChat

\* a reconnect timer set with setInterval: it stays armed after it has fired
RearmAfterReconnect(h, k) ==
    /\ reconnectDelay' = [reconnectDelay EXCEPT ![h] = NextReconnectDelay(@)]
    /\ endPc' = [endPc EXCEPT ![h][k] = "timer"]

\* a reconnect timer that goes back to waiting for its clearance
MutAfterReconnect(h, k) ==
    /\ reconnectDelay' = [reconnectDelay EXCEPT ![h] = NextReconnectDelay(@)]
    /\ endPc' = [endPc EXCEPT ![h][k] = "clearance"]

\* the rest of the reconnect timer of run k once createBotWithRateLimit has
\* returned
AfterReconnect(h, k) ==
    /\ reconnectDelay' = [reconnectDelay EXCEPT ![h] = NextReconnectDelay(@)]
    /\ endPc' = [endPc EXCEPT ![h][k] = "done"]

\* the reconnect timer of run k fires and calls
\* createBotWithRateLimit(index)
OnReconnectTimer(h, k) ==
    /\ At(h, k, "timer")
    /\ IF MustWait
       THEN /\ endPc' = [endPc EXCEPT ![h][k] = "clearance"]
            /\ waitTime' = [waitTime EXCEPT ![h][k] = WaitTime]
            /\ UNCHANGED <<timeSinceLastConnection, handles, reconnectDelay>>
       ELSE /\ \E throws \in BOOLEAN : Clearance(owner[h], throws)
            /\ AfterReconnect(h, k)
            /\ UNCHANGED waitTime
    /\ UNCHANGED <<currentDelay, rateLimitDetected, store, chatDisabled, launch,
                   reconnectAttempts, loginRetries, session>>
    /\ chat' = NoChat

\* the await delay(waitTime) of a reconnection is over
OnClearanceWake(h, k) ==
    /\ At(h, k, "clearance")
    /\ waitTime[h][k] = 0
    /\ \E throws \in BOOLEAN : Clearance(owner[h], throws)
    /\ AfterReconnect(h, k)
    /\ UNCHANGED <<currentDelay, rateLimitDetected, store, chatDisabled, launch,
                   reconnectAttempts, loginRetries, session, waitTime>>
    /\ chat' = NoChat

\* the waits of the reconnections of one handle, one tick later
CountDown(w) == [k \in DOMAIN w |-> Max(w[k] - 1, 0)]

\* one clock tick
Tick ==
    /\ \/ timeSinceLastConnection < MAX_DELAY
       \/ launchWait > 0
       \/ \E h \in Handles : \E k \in DOMAIN waitTime[h] : waitTime[h][k] > 0
       \/ scope.timed /\ launchPc # "done" /\ sinceLaunch < MAX_DELAY
    /\ timeSinceLastConnection' = Min(timeSinceLastConnection + 1, MAX_DELAY)
    /\ sinceLaunch' = IF scope.timed /\ launchPc # "done"
                      THEN Min(sinceLaunch + 1, MAX_DELAY)
                      ELSE sinceLaunch
    /\ launchWait' = Max(launchWait - 1, 0)
    /\ waitTime' = [h \in Handles |-> CountDown(waitTime[h])]
    /\ UNCHANGED <<currentDelay, rateLimitDetected, store, chatDisabled, launchPc,
                   launchI, handles, closure, session, endPc>>
    /\ chat' = NoChat

ErrorCodes == {"ECONNRESET", "ETIMEDOUT"}

\* ------------------------------------------- what the connections emit
\* A connection emits its events while it is open or closing.  In the runs
\* that say so (scope.late) it goes on emitting after its 'end', as long as
\* its handlers are registered: 'error', 'kicked' and 'message', a first
\* 'spawn', and 'end' again, up to MaxEnds times.
Delivers(h) == IF scope.late THEN Listening(h) ELSE Emitting(h)
EmitSpawn(h) == (IF scope.late THEN Listening(h) ELSE bot[h] = "open") /\ OnSpawn(h)
EmitError(h, code) == Delivers(h) /\ OnError(h, code)
EmitMessage(h, m) == Delivers(h) /\ OnMessage(h, m)
EmitKicked(h, reason) == Delivers(h) /\ OnKicked(h, reason)
EmitEnd(h) == Delivers(h) /\ Len(endPc[h]) < MaxEnds /\ OnEnd(h)

\* the events that carry no throttle signal
QuietErrors == {code \in ErrorCodes : code # "ECONNRESET"}
QuietKicks == {reason \in KickReasons : ~KickClass[reason]}
QuietMessages == {m \in Messages : ~MessageClass[m].rateLimit}

\* the connections from their launch to their reconnection: the launch
\* loop, 'spawn' and the authentication, 'end', the reconnect timer and its
\* clearance
LifecycleNext ==
    \/ LaunchStart
    \/ LaunchWake
    \/ Tick
    \/ \E h \in Handles :
        \/ EmitSpawn(h)
        \/ EmitEnd(h)
        \/ \E k \in Runs : OnReconnectTimer(h, k)
        \/ \E k \in Runs : OnClearanceWake(h, k)
        \/ \E writeFails \in BOOLEAN : OnAuthenticate(h, writeFails)

\* what the fleet does while the server sends no throttle signal: the
\* errors, kick reasons and chat texts are those without one.  (The launch
\* loop's pause and the cooldown of the end handler begin only after a
\* signal; login failure markers are bounded by scope.markers.)
QuietNext ==
    \/ LifecycleNext
    \/ \E h \in Handles :
        \/ \E code \in QuietErrors : EmitError(h, code)
        \/ \E reason \in QuietKicks : EmitKicked(h, reason)
        \/ \E m \in QuietMessages : EmitMessage(h, m)

\* what the fleet does when the server sends no chat text: no 'message'
\* event, and so no login retry
FleetNext ==
    \/ LifecycleNext
    \/ LaunchResume
    \/ \E h \in Handles :
        \/ \E k \in Runs : OnCooldownOver(h, k)
        \/ \E code \in ErrorCodes : EmitError(h, code)
        \/ \E reason \in KickReasons : EmitKicked(h, reason)

\* the same with chat texts
ThrottleNext == FleetNext \/ \E h \in Handles, m \in Messages : EmitMessage(h, m)

\* the same with the login retries that failure markers start
Next ==
    \/ ThrottleNext
    \/ \E h \in Handles, entity \in Entities : OnLoginRetryTimer(h, entity)

\* what one connection does, with every chat text and the login retries.
\* (With one handle to create, the launch loop stays suspended in its
\* second call and a reconnection in its clearance.)
SessionNext ==
    \/ LaunchStart
    \/ Tick
    \/ \E h \in Handles :
        \/ EmitSpawn(h)
        \/ EmitEnd(h)
        \/ \E k \in Runs : OnCooldownOver(h, k)
        \/ \E k \in Runs : OnReconnectTimer(h, k)
        \/ \E entity \in Entities : OnLoginRetryTimer(h, entity)
        \/ \E writeFails \in BOOLEAN : OnAuthenticate(h, writeFails)
        \/ \E code \in ErrorCodes : EmitError(h, code)
        \/ \E reason \in KickReasons : EmitKicked(h, reason)
        \/ \E m \in Messages : EmitMessage(h, m)

\* The whole program within the bounds.
Spec == Init /\ [][Next]_vars

\* The fleet when the server sends no chat text, configured with
\* assumeChatDisabled off.
FleetInit ==
    /\ scope = Run(MaxHandles, 0, 0, ReconnectBudget)
    /\ InitProgram
    /\ chatDisabled = FALSE

FleetSpec == FleetInit /\ [][FleetNext]_vars

\* The fleet on a server that never throttles and never refuses a login,
\* with one reconnection more.
QuietInit == scope = Run(MaxHandles + 1, 0, 0, ReconnectBudget) /\ InitProgram
QuietSpec == QuietInit /\ [][QuietNext]_vars

\* The fleet of registered usernames when the server sends chat texts but
\* no login failure marker.
ThrottleInit == FleetInit /\ credentials = [u \in Ids |-> StoredSecret]
ThrottleSpec == ThrottleInit /\ [][ThrottleNext]_vars

\* the launch loop and the 'error', 'kicked' and 'message' events of the
\* connections it opens, while none of them has spawned or ended
SignalNext ==
    \/ LaunchStart
    \/ LaunchWake
    \/ LaunchResume
    \/ Tick
    \/ \E h \in Handles :
        \/ \E code \in ErrorCodes : EmitError(h, code)
        \/ \E reason \in KickReasons : EmitKicked(h, reason)
        \/ \E m \in Messages : EmitMessage(h, m)

\* The launch of the fleet, up to the first 'spawn' or 'end', with its
\* throttle signals counted.
SignalInit ==
    /\ scope = Run(MaxHandles, 0, MaxSignals, ReconnectBudget)
    /\ InitProgram
    /\ credentials = [u \in Ids |-> StoredSecret]
SignalSpec == SignalInit /\ [][SignalNext]_vars

\* The same launch configured with a ceiling of five times the initial
\* delay, where two and three signals of mixed kinds stay below the ceiling.
ProductInit ==
    /\ scope = [Run(MaxHandles, 0, MaxSignals, ReconnectBudget)
                   EXCEPT !.timing = WideTiming]
    /\ InitProgram
    /\ credentials = [u \in Ids |-> StoredSecret]
ProductSpec == ProductInit /\ [][SignalNext]_vars

\* The launch of the fleet, up to the first 'spawn' or 'end', with the time
\* between its launches measured.
LaunchInit ==
    /\ scope = [Run(MaxHandles, 0, 0, ReconnectBudget) EXCEPT !.timed = TRUE]
    /\ InitProgram
    /\ credentials = [u \in Ids |-> StoredSecret]

LaunchSpec == LaunchInit /\ [][SignalNext]_vars

\* The fleet with its throttle signals counted, handle by handle, configured
\* with assumeChatDisabled off.
FlagInit ==
    /\ scope = Run(MaxHandles, 0, MaxSignals, ReconnectBudget)
    /\ InitProgram
    /\ chatDisabled = FALSE
    /\ credentials = [u \in Ids |-> StoredSecret]

FlagSpec == FlagInit /\ [][FleetNext]_vars

\* the runs of bot.on('end') that have a reconnection under way: in the
\* cooldown, on the backoff timer, or suspended in createBotWithRateLimit
PendingRuns ==
    {r \in Handles \X Runs :
        \E pc \in {"cooldown", "timer", "clearance"} : At(r[1], r[2], pc)}

\* the handles with a reconnection under way
Pending == {h \in Handles : \E k \in Runs : <<h, k>> \in PendingRuns}

\* createBotWithRateLimit calls the launch loop has still to make
LaunchesLeft ==
    IF launchPc = "done" THEN 0
    ELSE IF launchPc = "pause" THEN LastIndex - launchI
    ELSE LastIndex - launchI + 1

\* connections end only while the run can follow their reconnection
EndsBounded == nBots + LaunchesLeft + Cardinality(PendingRuns) < scope.handles

\* the 'end' event of a connection whose reconnection the run can follow
BoundedEnd(h) == EndsBounded /\ EmitEnd(h)

\* what the timers do in a fleet whose connections never emit 'spawn' (no
\* session is established, so the spawn handler and its authentication do
\* not run), with finitely many 'end' events, every error, kick reason and
\* chat text, and no login failure marker
TimerNext ==
    \/ LaunchStart
    \/ LaunchWake
    \/ LaunchResume
    \/ Tick
    \/ \E h \in Handles :
        \/ BoundedEnd(h)
        \/ \E k \in Runs : OnCooldownOver(h, k)
        \/ \E k \in Runs : OnReconnectTimer(h, k)
        \/ \E k \in Runs : OnClearanceWake(h, k)
        \/ \E code \in ErrorCodes : EmitError(h, code)
        \/ \E reason \in KickReasons : EmitKicked(h, reason)
        \/ \E m \in Messages : EmitMessage(h, m)

\* every timer that is due fires, and time passes
TimersFire ==
    /\ WF_vars(Tick)
    /\ WF_vars(LaunchStart)
    /\ WF_vars(LaunchWake)
    /\ WF_vars(LaunchResume)
    /\ \A h \in Handles, k \in Runs :
        /\ WF_vars(OnCooldownOver(h, k))
        /\ WF_vars(OnReconnectTimer(h, k))
        /\ WF_vars(OnClearanceWake(h, k))

\* The fleet under fair timers, before any 'spawn', with throttle signals
\* and chat texts at any time, also after the 'end' of a connection.
TimerInit ==
    /\ scope = [Run(MaxHandles + 1, 0, 0, ReconnectBudget) EXCEPT !.late = TRUE]
    /\ InitProgram
    /\ credentials = [u \in Ids |-> StoredSecret]

TimerSpec == TimerInit /\ [][TimerNext]_vars /\ TimersFire

\* what the fleet does when no reconnection is ever scheduled and the
\* server sends no login failure marker
GiveUpNext ==
    \/ LaunchStart
    \/ LaunchWake
    \/ LaunchResume
    \/ Tick
    \/ \E h \in Handles :
        \/ EmitSpawn(h)
        \/ EmitEnd(h)
        \/ \E k \in Runs : OnCooldownOver(h, k)
        \/ \E writeFails \in BOOLEAN : OnAuthenticate(h, writeFails)
        \/ \E code \in ErrorCodes : EmitError(h, code)
        \/ \E reason \in KickReasons : EmitKicked(h, reason)
        \/ \E m \in Messages : EmitMessage(h, m)

\* The fleet configured with maxReconnectAttempts = 0.
GiveUpInit == scope = Run(MaxHandles, 0, 0, 0) /\ InitProgram

GiveUpSpec == GiveUpInit /\ [][GiveUpNext]_vars

\* The first connection of the fleet, with every chat text, configured with
\* assumeChatDisabled off.
SessionInit ==
    /\ scope = Run(1, MaxFailureMarkers, 0, ReconnectBudget)
    /\ InitProgram
    /\ chatDisabled = FALSE

SessionSpec == SessionInit /\ [][SessionNext]_vars

\* ================================================================ claims

\* the handles of one username that have been created and have not ended
LiveHandles(u) == {h \in Handles : owner[h] = u /\ bot[h] \in {"open", "closing"}}

\* a step in which createBotWithRateLimit grants a clearance
ClearanceGranted == nBots' = nBots + 1

\* C1: every clearance is granted at least currentDelay after the one
\* before it, whoever asked for it (launch loop or reconnect timer).  With
\* no throttle signal currentDelay keeps its configured value throughout.
C1_ClearancesSpaced ==
    [][ClearanceGranted => timeSinceLastConnection >= currentDelay]_vars

\* C2: currentDelay starts at most at MAX_DELAY, never decreases and never
\* exceeds MAX_DELAY, whatever throttle signals arrive and from whichever
\* connection.
C2_DelayMonotoneBounded ==
    /\ currentDelay <= MAX_DELAY
    /\ [][currentDelay' >= currentDelay /\ currentDelay' <= MAX_DELAY]_vars

\* C2 witness: signals have raised the delay up to the ceiling
C2_Witness ==
    /\ currentDelay = MAX_DELAY
    /\ currentDelay > InitialConnectionDelay
    /\ rateLimitDetected

\* C3: a username never has two handles that are created and not yet ended.
C3_OneLiveHandle == \A u \in Ids : Cardinality(LiveHandles(u)) <= 1

\* C3 witness: a reconnection has opened a new handle for a username whose
\* earlier handle has ended
C3_Witness ==
    \E g \in Handles, h \in Handles :
        /\ g < h
        /\ owner[g] = owner[h]
        /\ bot[g] = "ended"
        /\ bot[h] = "open"

\* the handle h has run the spawn handler's authentication in this step
Authenticates(h) == spawnPc[h] = "delay" /\ spawnPc'[h] = "done"

\* C4: a username is registered at most once; a registration is sent only
\* while no secret is stored and stores the configured password, a stored
\* secret never changes, and a spawn that finds a stored secret sends a
\* login and no registration.
C4_RegisterOnce ==
    /\ \A u \in Ids : registrations[u] <= 1
    /\ [][\A u \in Ids :
            /\ credentials[u] # NoSecret => credentials'[u] = credentials[u]
            /\ registrations'[u] # registrations[u] =>
                   /\ credentials[u] = NoSecret
                   /\ credentials'[u] = Password
                   /\ chat'.cmd = "register"
            /\ \A h \in Handles :
                   owner[h] = u /\ Authenticates(h) =>
                       IF credentials[u] = NoSecret
                       THEN chat' = Chat(h, "register")
                       ELSE /\ chat' = Chat(h, "login")
                            /\ registrations'[u] = registrations[u]]_vars

\* C4 witness: after a registration on one handle, a later handle of the
\* same username has just sent its login
C4_Witness ==
    \E g \in Handles, h \in Handles :
        /\ g < h
        /\ owner[g] = owner[h]
        /\ owner[h] \in Ids
        /\ registrations[owner[h]] = 1
        /\ bot[g] = "ended"
        /\ chat = Chat(h, "login")

\* the handles created for the username of h before h
Earlier(h) == {g \in Handles : g < h /\ owner[g] = owner[h]}

\* how many handles of the username, counted back from h, disconnected in a
\* row without ever spawning: h is the reconnection attempt of that number
FailedStreak(h) ==
    Cardinality({g \in Earlier(h) :
        \A f \in Earlier(h) : f >= g => spawnPc[f] = "idle"})

\* C5: a username that keeps disconnecting without a session in between
\* is reconnected at most maxReconnectAttempts times in a row, and the
\* disconnect after that schedules no further reconnection.
C5_FailedAfterMax ==
    \A h \in Handles :
        h <= nBots =>
            /\ FailedStreak(h) <= maxReconnectAttempts
            /\ ( /\ bot[h] = "ended"
                 /\ spawnPc[h] = "idle"
                 /\ FailedStreak(h) >= maxReconnectAttempts )
               => Stages(h) \subseteq {"cooldown", "failed"}

\* C6: reconnectAttempts of every closure is between 0 and
\* maxReconnectAttempts.
C6_AttemptsBounded ==
    \A h \in Handles : reconnectAttempts[h] \in 0 .. maxReconnectAttempts

\* C6 witness: a disconnect has used the last reconnection of its closure
C6_Witness ==
    \E h \in Handles :
        /\ bot[h] = "ended"
        /\ "timer" \in Stages(h)
        /\ reconnectAttempts[h] = maxReconnectAttempts

RECURSIVE Backoff(_)
\* min(base * growth^k, ceiling), by the code's own growth step
Backoff(k) ==
    IF k = 0 THEN ReconnectBaseDelay ELSE NextReconnectDelay(Backoff(k - 1))

\* C7: the reconnect timer of a handle that ended without spawning, after
\* k earlier handles of its username did the same, is set from
\* min(base * growth^k, ceiling).
C7_BackoffGrows ==
    \A h \in Handles :
        ( /\ bot[h] = "ended"
          /\ spawnPc[h] = "idle"
          /\ "timer" \in Stages(h) )
        => reconnectDelay[h] = Backoff(FailedStreak(h))

\* a run of the end handler of h comes to its backoff computation in this
\* step, at once or after its cooldown
Schedules(h) ==
    \E k \in DOMAIN endPc'[h] :
        /\ endPc'[h][k] \in {"timer", "failed"}
        /\ k \in DOMAIN endPc[h] => endPc[h][k] = "cooldown"

\* no run of the end handler of h has come to its backoff computation
Unscheduled(h) == Stages(h) \subseteq {"cooldown"}

\* C8: the spawn handler's authentication leaves the closure with
\* reconnectAttempts = 0, reconnectDelay = base and loginRetries = 0, and
\* the first disconnect of a session that was authenticated finds
\* reconnectAttempts = 0 and reconnectDelay = base when it schedules the
\* reconnection.
C8_ResetOnActive ==
    [][\A h \in Handles :
          /\ Authenticates(h) =>
                /\ reconnectAttempts'[h] = 0
                /\ reconnectDelay'[h] = ReconnectBaseDelay
                /\ loginRetries'[h] = 0
          /\ ( /\ spawnPc[h] = "done"
               /\ Unscheduled(h)
               /\ Schedules(h) )
             => /\ reconnectAttempts[h] = 0
                /\ reconnectDelay[h] = ReconnectBaseDelay
                /\ "timer" \in Stages(h)'
                /\ reconnectAttempts'[h] = 1]_vars

\* C8 witness: a session that had seen login failures was authenticated,
\* then disconnected and scheduled its reconnection
C8_Witness ==
    \E h \in Handles :
        /\ spawnPc[h] = "done"
        /\ failureMarkers > 0
        /\ loginRetries[h] = 0
        /\ bot[h] = "ended"
        /\ "timer" \in Stages(h)

\* C9: a failure marker that brings loginRetries to maxLoginRetries or
\* beyond schedules no login retry, a failure marker below it schedules
\* one, and outside the spawn handler a login is sent only by such a timer.
C9_RetryStops ==
    [][\A h \in Handles :
          /\ loginRetries'[h] > loginRetries[h] =>
                retryTimers'[h] =
                    IF loginRetries'[h] >= maxLoginRetries
                    THEN retryTimers[h]
                    ELSE retryTimers[h] + 1
          /\ chat' = Chat(h, "login") /\ ~Authenticates(h) =>
                retryTimers'[h] = retryTimers[h] - 1]_vars

\* C9 witness: failure markers went on after the maximum and no retry is
\* pending
C9_Witness ==
    \E h \in Handles :
        /\ loginRetries[h] > maxLoginRetries
        /\ retryTimers[h] = 0

\* chat texts that are a success marker without throttling vocabulary
SuccessMarkers ==
    {m \in Messages : MessageClass[m].success /\ ~MessageClass[m].rateLimit}

\* what a success marker on h may change: loginRetries of h, to 0
SuccessFrame(h) ==
    /\ loginRetries' = [loginRetries EXCEPT ![h] = 0]
    /\ chat' = NoChat
    /\ UNCHANGED <<admission, store, launch, handles, reconnectAttempts,
                   reconnectDelay, session, reconnection>>

\* C10 as stated: a success marker without throttling vocabulary sets
\* loginRetries of its connection to 0 and changes nothing else.
C10_SuccessOnlyResets ==
    [][\A h \in Handles, m \in SuccessMarkers :
          OnMessage(h, m) => SuccessFrame(h) /\ UNCHANGED chatDisabled]_vars

\* C10 amended: a success marker without throttling vocabulary sets
\* loginRetries of its connection to 0 and changes nothing else, except
\* that a text which also contains "chat is disabled" sets chatDisabled.
C10_SuccessResetsAndChatFlag ==
    [][\A h \in Handles, m \in SuccessMarkers :
          OnMessage(h, m) =>
              /\ SuccessFrame(h)
              /\ chatDisabled' = (chatDisabled \/ MessageClass[m].chatDisabled)]_vars

\* C10 witness: before any spawn, a success marker that also says chat is
\* disabled has cleared the retries that failure markers had counted
C10_Witness ==
    \E h \in Handles :
        /\ bot[h] = "open"
        /\ spawnPc[h] = "idle"
        /\ failureMarkers > 0
        /\ loginRetries[h] = 0
        /\ chatDisabled

\* a throttle signal is logged in this step
SoftSignal == signals'.soft = signals.soft + 1
HardSignal == signals'.hard = signals.hard + 1

\* C11: an ECONNRESET error sets currentDelay to min(1.5 * currentDelay,
\* MAX_DELAY), a throttling chat text or kick reason sets it to
\* min(2 * currentDelay, MAX_DELAY); below the ceiling a signal raises the
\* delay, at the ceiling it leaves it there, and nothing else changes it.
C11_ThrottleFactors ==
    [][/\ \A h \in Handles :
            /\ OnError(h, "ECONNRESET") => SoftSignal
            /\ \A m \in Messages :
                   MessageClass[m].rateLimit /\ OnMessage(h, m) => HardSignal
            /\ \A r \in KickReasons :
                   KickClass[r] /\ OnKicked(h, r) => HardSignal
       /\ SoftSignal => 2 * currentDelay' = Min(3 * currentDelay, 2 * MAX_DELAY)
       /\ HardSignal => currentDelay' = Min(2 * currentDelay, MAX_DELAY)
       /\ IF SoftSignal \/ HardSignal
          THEN IF currentDelay < MAX_DELAY
               THEN currentDelay' > currentDelay
               ELSE currentDelay' = MAX_DELAY
          ELSE currentDelay' = currentDelay]_vars

\* C11 witness: the delay is at the ceiling and one signal more than the
\* ceiling needs has been counted
C11_Witness ==
    /\ currentDelay = MAX_DELAY
    /\ signals.soft = MaxSignals

\* kick reasons whose text contains "try again"
TryAgainKicks == {r \in KickReasons : Includes(r.text, PhraseTryAgain)}

\* C12: a kick whose reason text contains "try again" is one throttle
\* signal: it doubles currentDelay up to the ceiling and raises the flag
\* that makes the end handler of the connection wait its cooldown, and it
\* leaves the reconnection counters and backoff delays of every closure
\* as they are.
C12_TryAgainKickThrottles ==
    [][\A h \in Handles, r \in TryAgainKicks :
          OnKicked(h, r) =>
              /\ currentDelay' = Min(2 * currentDelay, MAX_DELAY)
              /\ rateLimitDetected'
              /\ UNCHANGED <<reconnectAttempts, reconnectDelay>>]_vars

\* mineflayer.createBot is called for handle h in this step
Attempted(h) == bot[h] = "unborn" /\ bot'[h] # "unborn"

\* C13: a connection is attempted only in the step in which
\* createBotWithRateLimit grants a clearance (lastConnectionTime = now),
\* for the username that the launch loop or a reconnect timer asked it
\* for; and every granted clearance attempts exactly one connection.
C13_ClearanceBeforeAttempt ==
    [][/\ \A h \in Handles :
            Attempted(h) =>
                /\ timeSinceLastConnection' = 0
                /\ h = nBots + 1
                /\ nBots' = h
                /\ \/ launchPc \in {"call", "wait"} /\ owner'[h] = launchI
                   \/ launchPc = "pause" /\ owner'[h] = launchI + 1
                   \/ \E g \in Handles, k \in Runs :
                         /\ At(g, k, "timer") \/ At(g, k, "clearance")
                         /\ endPc'[g][k] = "done"
                         /\ owner'[h] = owner[g]
       /\ timeSinceLastConnection' < timeSinceLastConnection \/ nBots' # nBots =>
             /\ timeSinceLastConnection' = 0
             /\ Cardinality({h \in Handles : Attempted(h)}) = 1]_vars

\* C13 witness: a reconnect timer has just been granted its clearance and
\* has opened the next connection of its username
C13_Witness ==
    \E g \in Handles, h \in Handles :
        /\ "done" \in Stages(g)
        /\ h = nBots
        /\ g < h
        /\ owner[h] = owner[g]
        /\ bot[h] = "open"
        /\ timeSinceLastConnection = 0

\* C14: once the 'end' of a connection has been emitted, none of the
\* intervals that startBotActivities set for it is still running.
C14_NoIntervalsAfterEnd ==
    \A h \in Handles : bot[h] = "ended" => intervals[h] = 0

\* C15: a connection attempt whose mineflayer.createBot threw is counted
\* against the backoff of its closure and has its retry scheduled, under
\* way or done, or the closure has given up.
C15_ThrowIsRetried ==
    \A h \in Handles :
        bot[h] = "none" =>
            /\ Stages(h) # {}
            /\ "failed" \notin Stages(h) => reconnectAttempts[h] >= 1

\* C16: the failure marker that brings loginRetries of a closure to
\* maxLoginRetries, and every one after it, leaves the connection open:
\* no handle changes, nothing is scheduled for a reconnection, and
\* reconnectAttempts and reconnectDelay keep their values.
C16_ExhaustionKeepsConnection ==
    [][\A h \in Handles :
          loginRetries'[h] > loginRetries[h] /\ loginRetries'[h] >= maxLoginRetries =>
              UNCHANGED <<bot, activeBots, nBots, endPc, waitTime,
                          reconnectAttempts, reconnectDelay>>]_vars

\* C16 witness: the login retries of an authenticated connection have run
\* out and it is still open, with no reconnection under way
C16_Witness ==
    \E h \in Handles :
        /\ loginRetries[h] = maxLoginRetries
        /\ spawnPc[h] = "done"
        /\ bot[h] = "open"
        /\ activeBots[owner[h]] = h
        /\ endPc[h] = <<>>

\* the registration of this step could not write credentials.json
WriteFailed(u) ==
    /\ registrations'[u] = registrations[u] + 1
    /\ credFile' = credFile

\* C17: a registration whose write of credentials.json fails still sets
\* the secret in memory, starts the idle behaviour and resets the
\* counters of its closure; and a later spawn of the username, whose
\* secret is in memory but not in the file, sends a login.
C17_WriteFailureGoesOn ==
    [][\A h \in Handles :
          LET u == owner[h] IN
          Authenticates(h) =>
              /\ WriteFailed(u) =>
                    /\ credentials'[u] = Password
                    /\ chat' = Chat(h, "register")
                    /\ intervals'[h] > 0
                    /\ reconnectAttempts'[h] = 0
                    /\ reconnectDelay'[h] = ReconnectBaseDelay
                    /\ loginRetries'[h] = 0
              /\ registrations[u] > 0 /\ credFile[u] = NoSecret =>
                    /\ chat' = Chat(h, "login")
                    /\ UNCHANGED <<store, registrations>>]_vars

\* C17 witness: a username registered without its secret reaching the
\* file, and a later connection of it has just sent its login
C17_Witness ==
    \E g \in Handles, h \in Handles :
        /\ g < h
        /\ owner[g] = owner[h]
        /\ owner[h] \in Ids
        /\ registrations[owner[h]] = 1
        /\ credFile[owner[h]] = NoSecret
        /\ credentials[owner[h]] = Password
        /\ chat = Chat(h, "login")

\* the end handler of h gives up in this step ("Max reconnection
\* attempts reached")
BecomesFailed(h) ==
    \E k \in DOMAIN endPc'[h] :
        /\ endPc'[h][k] = "failed"
        /\ ~At(h, k, "failed")

\* C18: the step in which the end handler of one username gives up leaves
\* currentDelay as it is and changes nothing of any other username: its
\* handles, its entry in activeBots, where its handlers stand, its
\* reconnectAttempts, reconnectDelay and loginRetries, its timers.
C18_FailedFrame ==
    [][\A h \in Handles :
          BecomesFailed(h) =>
              /\ currentDelay' = currentDelay
              /\ \A u \in Ids \ {owner[h]} : activeBots'[u] = activeBots[u]
              /\ \A g \in Handles :
                    owner[g] # owner[h] =>
                        /\ owner'[g] = owner[g]
                        /\ bot'[g] = bot[g]
                        /\ spawnPc'[g] = spawnPc[g]
                        /\ endPc'[g] = endPc[g]
                        /\ waitTime'[g] = waitTime[g]
                        /\ reconnectAttempts'[g] = reconnectAttempts[g]
                        /\ reconnectDelay'[g] = reconnectDelay[g]
                        /\ loginRetries'[g] = loginRetries[g]
                        /\ intervals'[g] = intervals[g]
                        /\ retryTimers'[g] = retryTimers[g]]_vars

\* C18 witness: one username has given up while another has its
\* authenticated connection open
C18_Witness ==
    \E h \in Handles, g \in Handles :
        /\ "failed" \in Stages(h)
        /\ owner[g] \in Ids \ {owner[h]}
        /\ bot[g] = "open"
        /\ spawnPc[g] = "done"
        /\ endPc[g] = <<>>

\* the index the launch loop passes to its next createBotWithRateLimit
Launching == IF launchPc = "pause" THEN launchI + 1 ELSE launchI

\* the launch loop's createBotWithRateLimit returns in this step
LaunchIssued ==
    /\ nBots' = nBots + 1
    /\ <<launchPc, launchI>>' # <<launchPc, launchI>>

\* C19: the launch loop starts the identities once each in increasing index
\* order, one clearance at a time, and every launch after the first comes at
\* least currentDelay after the launch before it.
C19_LaunchesOrderedSpaced ==
    [][LaunchIssued =>
         /\ Launching \in StartIndex .. LastIndex
         /\ \E h \in Handles : bot[h] = "unborn" /\ owner'[h] = Launching
         /\ Launching' = Launching + 1
         /\ Launching > StartIndex => sinceLaunch >= currentDelay]_vars

\* the order and the once-only part of C19 alone
LaunchesOrdered ==
    [][LaunchIssued =>
         /\ Launching \in StartIndex .. LastIndex
         /\ \E h \in Handles : bot[h] = "unborn" /\ owner'[h] = Launching
         /\ Launching' = Launching + 1]_vars

\* b to the power n
RECURSIVE Pow(_, _)
Pow(b, n) == IF n = 0 THEN 1 ELSE b * Pow(b, n - 1)

\* C20: after n soft and m explicit throttle signals, in whatever order and
\* from whichever identities, currentDelay is
\* min(initialConnectionDelay * 1.5^n * 2^m, MAX_DELAY); both sides are
\* multiplied by 2^n to stay in whole numbers.
C20_DelayIsProduct ==
    Pow(2, signals.soft) * currentDelay =
        Min(InitialConnectionDelay * Pow(3, signals.soft) * Pow(2, signals.hard),
            Pow(2, signals.soft) * MAX_DELAY)

\* signals of both kinds have been counted, up to the most a run counts,
\* and their product is still below the ceiling
C20_Witness ==
    /\ signals.soft >= 1
    /\ signals.hard >= 1
    /\ signals.soft + signals.hard = MaxSignals
    /\ currentDelay > InitialConnectionDelay
    /\ currentDelay < MAX_DELAY

\* bot.on('end') of handle h runs in this step
Ends(h) == Len(endPc'[h]) = Len(endPc[h]) + 1

\* a run of the end handler of h leaves its cooldown in this step
CooldownOver(h) ==
    \E k \in Runs : At(h, k, "cooldown") /\ endPc'[h][k] # "cooldown"

\* C21: a connection that ends goes into the cooldown exactly when its own
\* handlers observed a throttle signal while it lasted, and the throttle
\* flag is cleared only when a connection that observed a signal leaves its
\* cooldown.
C21_FlagIsLocal ==
    [][/\ \A h \in Handles :
            Ends(h) =>
                (endPc'[h][Len(endPc'[h])] = "cooldown" <=> h \in signals.by)
       /\ rateLimitDetected /\ ~rateLimitDetected' =>
            \E h \in signals.by : CooldownOver(h)]_vars

\* a caller suspended in createBotWithRateLimit's await delay(waitTime)
\* goes on to createBot in this step
Resumes ==
    \/ launchPc = "wait" /\ LaunchIssued
    \/ \E h \in Handles, k \in Runs :
          At(h, k, "clearance") /\ endPc'[h][k] = "done"

\* C22: a caller that was suspended in the clearance goes on only when at
\* least the currentDelay of that moment, throttle signals of the meantime
\* included, has passed since the last clearance.
C22_ResumeAfterNewDelay ==
    [][Resumes => timeSinceLastConnection >= currentDelay]_vars

\* the launch loop is suspended in createBotWithRateLimit(i)
LoopWaits(i) == launchPc = "wait" /\ launchI = i

\* C23: under fair timers every caller suspended in createBotWithRateLimit
\* goes on to createBot and returns, the launch loop as well as a
\* reconnection, whatever signals and other callers come in the meantime.
C23_ClearanceReturns ==
    /\ \A i \in StartIndex .. LastIndex : LoopWaits(i) ~> ~LoopWaits(i)
    /\ \A h \in Handles, k \in Runs : At(h, k, "clearance") ~> At(h, k, "done")

\* a reconnection and the launch loop are both suspended in
\* createBotWithRateLimit, the delay has been raised, and the reconnection's
\* timer is due
C23_Witness ==
    \E h \in Handles, k \in Runs :
        /\ At(h, k, "clearance")
        /\ waitTime[h][k] = 0
        /\ launchPc = "wait"
        /\ currentDelay > InitialConnectionDelay

\* createBot has been called for username u
Launched(u) == \E h \in Handles : owner[h] = u

\* username u has a connection, or a reconnection under way
Attempting(u) == \E h \in Handles : owner[h] = u /\ (Emitting(h) \/ h \in Pending)

\* a connection of username u has logged "Max reconnection attempts reached"
Failed(u) == \E h \in Handles : owner[h] = u /\ "failed" \in Stages(h)

\* under fair timers a connection that ended with retries left leads to a
\* new createBot call
EndLeadsToAttempt ==
    \A h \in Handles, k \in Runs : <<h, k>> \in PendingRuns ~> At(h, k, "done")

\* C24: under fair timers, a connection that ends while reconnectAttempts
\* is below maxReconnectAttempts leads to a new createBot call, and a
\* username that has been launched is never left without a connection and
\* without a reconnection under way unless it has become Failed.
C24_AttemptsUntilFailed ==
    /\ EndLeadsToAttempt
    /\ [](\A u \in Ids : Launched(u) => Attempting(u) \/ Failed(u))

\* C25: the login-retry counter of every closure stays between 0 and
\* maxLoginRetries, whatever login failure markers arrive.
C25_LoginRetriesBounded ==
    \A h \in Handles : loginRetries[h] \in 0 .. maxLoginRetries

\* activeBots.size, as the status interval reports it
StatusCount == Cardinality({u \in Ids : activeBots[u] # 0})

\* username u has a connection whose session is established and whose
\* authentication command has been sent
Active(u) ==
    \E h \in Handles : owner[h] = u /\ bot[h] = "open" /\ spawnPc[h] = "done"

\* C26: the count of the status report is the number of usernames that are
\* Active, and is at most the fleet size; a username that is connecting,
\* authenticating, disconnected, reconnecting or failed is not counted.
C26_StatusCountsActive ==
    /\ StatusCount = Cardinality({u \in Ids : Active(u)})
    /\ StatusCount <= NumBots

\* the spawn handler of handle h comes back from its delay in this step
AuthDelayOver(h) == spawnPc[h] = "delay" /\ spawnPc'[h] = "done"

\* C27: on a connection whose 'end' has been emitted no /register or /login
\* command is sent, and the spawn handler that comes back from its delay
\* after the 'end' leaves credentials and credentials.json as they are.
C27_NoAuthAfterEnd ==
    [][\A h \in Handles :
          bot[h] = "ended" =>
              /\ chat'.bot # h
              /\ AuthDelayOver(h) => UNCHANGED store]_vars

\* the reconnections of username u that are under way
PendingOf(u) == {r \in PendingRuns : owner[r[1]] = u}

\* C28: a username has at most one reconnection under way at any time (in
\* the cooldown, on the backoff timer or suspended in
\* createBotWithRateLimit), and the reconnection of a connection that has
\* made its createBot call, or has given up, never starts again.
C28_OneReconnectionPending ==
    /\ [](\A u \in Ids : Cardinality(PendingOf(u)) <= 1)
    /\ [][\A h \in Handles, k \in Runs :
              At(h, k, "done") \/ At(h, k, "failed") =>
                  endPc'[h][k] = endPc[h][k]]_vars

\* the second connection of a username has ended and is in its cooldown,
\* after the reconnection of the first has made its createBot call
C28_Witness ==
    \E g, h \in Handles :
        /\ g # h
        /\ owner[g] = owner[h]
        /\ "done" \in Stages(g)
        /\ "cooldown" \in Stages(h)

=========================================================================
